---- MODULE Spec2Model ----
(***************************************************************************)
(* dulwich/contrib/diffstat.py: the line parser _parse_patch and the       *)
(* report formatter diffstat.                                              *)
(*                                                                         *)
(* Byte strings are TLA+ strings (Len, \o and SubSeq work on them, with    *)
(* 1-based positions).  Optional[bytes] is a sequence of length 0 (None)   *)
(* or 1 (the value).  assert statements are executed (the interpreter's    *)
(* default mode) and raise AssertionError.                                 *)
(***************************************************************************)
EXTENDS Integers, Sequences, FiniteSets, TLC

(***************************************************************************)
(* Bounds of the model.                                                    *)
(***************************************************************************)
MaxLines == 4       \* input lines per run of Spec
MaxRecords == 2     \* file entries per run of SpecFmt
MaxCount == 3       \* added / deleted lines per file entry in SpecFmt
MaxWidth == 13      \* SpecFmt tries max_width in -1, 0, MaxWidth-3 .. MaxWidth
MaxWideCount == 15  \* added / deleted lines of the large entry of SpecWide
MaxWideWidth == 32  \* SpecWide tries max_width in MaxWideWidth-4 .. MaxWideWidth

(***************************************************************************)
(* Module constants, lines 43-52, and the default of max_width, line 114.  *)
(***************************************************************************)
GIT_HEADER_START == "diff --git a/"
GIT_BINARY_START == "Binary file"
GIT_RENAMEFROM_START == "rename from"
GIT_RENAMETO_START == "rename to"
GIT_CHUNK_START == "@@"
GIT_ADDED_START == "+"
GIT_DELETED_START == "-"
GIT_UNCHANGED_START == " "
DEFAULT_MAX_WIDTH == 80

(***************************************************************************)
(* Python built-ins used by the code.                                      *)
(***************************************************************************)
None == <<>>
Some(x) == <<x>>

Max(a, b) == IF a >= b THEN a ELSE b

\* bytes.startswith
StartsWith(line, prefix) ==
    /\ Len(line) >= Len(prefix)
    /\ SubSeq(line, 1, Len(prefix)) = prefix

\* line[n:] with n >= 0
SliceFrom(line, n) == SubSeq(line, n + 1, Len(line))

\* b"c" * n  (empty when n <= 0)
RECURSIVE Repeat(_, _)
Repeat(c, n) == IF n <= 0 THEN "" ELSE c \o Repeat(c, n - 1)

\* str(n) for n >= 0
Digit(d) == SubSeq("0123456789", d + 1, d + 1)
RECURSIVE Str(_)
Str(n) == IF n < 10 THEN Digit(n) ELSE Str(n \div 10) \o Digit(n % 10)

\* b"%-<w>s" % s  and  b"%<w>s" % s
LJust(s, w) == s \o Repeat(" ", w - Len(s))
RJust(s, w) == Repeat(" ", w - Len(s)) \o s

\* sum(list)
RECURSIVE Sum(_)
Sum(s) == IF s = <<>> THEN 0 ELSE Head(s) + Sum(Tail(s))

(***************************************************************************)
(* _git_header_name.search(line): the regex is the literal                 *)
(* "diff --git a/", any characters (group 1), the literal " b/", any       *)
(* characters (group 2).                                                   *)
(* search takes the leftmost start of the literal "diff --git a/" from     *)
(* which the rest can match; the first group is greedy, so the literal     *)
(* " b/" is the last one at or after the end of the prefix.  Lines hold no *)
(* newline, so "." matches every character.  The result is None or         *)
(* Some(group(2)).                                                         *)
(***************************************************************************)
SepPositions(line, from) ==
    {k \in from..(Len(line) - 2) : SubSeq(line, k, k + 2) = " b/"}

MatchStarts(line) ==
    {s \in 1..(Len(line) - Len(GIT_HEADER_START) + 1) :
        /\ SubSeq(line, s, s + Len(GIT_HEADER_START) - 1) = GIT_HEADER_START
        /\ SepPositions(line, s + Len(GIT_HEADER_START)) # {}}

SetMin(S) == CHOOSE x \in S : \A y \in S : x <= y
SetMax(S) == CHOOSE x \in S : \A y \in S : x >= y

GitHeaderNameSearch(line) ==
    LET starts == MatchStarts(line)
        seps == SepPositions(line, SetMin(starts) + Len(GIT_HEADER_START))
    IN  IF starts = {} THEN None
        ELSE Some(SliceFrom(line, SetMax(seps) + 2))

(***************************************************************************)
(* The locals of _parse_patch as one record, lines 68-73.                  *)
(***************************************************************************)
InitLocals ==
    [names |-> <<>>, nametypes |-> <<>>, counts |-> <<>>,
     in_patch_chunk |-> FALSE, in_git_header |-> FALSE, binaryfile |-> FALSE,
     currentfile |-> None, added |-> 0, deleted |-> 0, error |-> "none"]

(***************************************************************************)
(* The branches of the loop body, lines 75-103.                            *)
(***************************************************************************)
HeaderBranchNoAssert(st, line) ==
    LET m == GitHeaderNameSearch(line)
        fin == IF st.currentfile # None
               THEN [st EXCEPT !.names = Append(@, st.currentfile[1]),
                               !.nametypes = Append(@, st.binaryfile),
                               !.counts = Append(@, <<st.added, st.deleted>>)]
               ELSE st
    IN  [fin EXCEPT !.currentfile =
                        IF m = None
                        THEN Some(SliceFrom(line, Len(GIT_HEADER_START)))
                        ELSE Some(m[1]),
                    !.binaryfile = FALSE,
                    !.added = 0, !.deleted = 0,
                    !.in_git_header = TRUE,
                    !.in_patch_chunk = FALSE]

HeaderBranchPrepend(st, line) ==
    LET m == GitHeaderNameSearch(line)
        fin == IF st.currentfile # None
               THEN [st EXCEPT !.names = <<st.currentfile[1]>> \o @,
                               !.nametypes = <<st.binaryfile>> \o @,
                               !.counts = <<<<st.added, st.deleted>>>> \o @]
               ELSE st
    IN  IF m = None THEN [fin EXCEPT !.error = "AssertionError"]
        ELSE [fin EXCEPT !.currentfile = Some(m[1]),
                         !.binaryfile = FALSE,
                         !.added = 0, !.deleted = 0,
                         !.in_git_header = TRUE,
                         !.in_patch_chunk = FALSE]

HeaderBranchOnePerFile(st, line) ==
    LET m == GitHeaderNameSearch(line)
        seen == \E k \in 1..Len(st.names) : st.names[k] = st.currentfile[1]
        fin == IF st.currentfile # None /\ ~seen
               THEN [st EXCEPT !.names = Append(@, st.currentfile[1]),
                               !.nametypes = Append(@, st.binaryfile),
                               !.counts = Append(@, <<st.added, st.deleted>>)]
               ELSE st
    IN  IF m = None THEN [fin EXCEPT !.error = "AssertionError"]
        ELSE [fin EXCEPT !.currentfile = Some(m[1]),
                         !.binaryfile = FALSE,
                         !.added = 0, !.deleted = 0,
                         !.in_git_header = TRUE,
                         !.in_patch_chunk = FALSE]

HeaderBranchKeepCounts(st, line) ==
    LET m == GitHeaderNameSearch(line)
        fin == IF st.currentfile # None
               THEN [st EXCEPT !.names = Append(@, st.currentfile[1]),
                               !.nametypes = Append(@, st.binaryfile),
                               !.counts = Append(@, <<st.added, st.deleted>>)]
               ELSE st
    IN  IF m = None THEN [fin EXCEPT !.error = "AssertionError"]
        ELSE [fin EXCEPT !.currentfile = Some(m[1]),
                         !.binaryfile = FALSE,
                         !.in_git_header = TRUE,
                         !.in_patch_chunk = FALSE]

\* lines 76-86
HeaderBranch(st, line) ==
    LET m == GitHeaderNameSearch(line)
        fin == IF st.currentfile # None
               THEN [st EXCEPT !.names = Append(@, st.currentfile[1]),
                               !.nametypes = Append(@, st.binaryfile),
                               !.counts = Append(@, <<st.added, st.deleted>>)]
               ELSE st
    IN  IF m = None THEN [fin EXCEPT !.error = "AssertionError"]
        ELSE [fin EXCEPT !.currentfile = Some(m[1]),
                         !.binaryfile = FALSE,
                         !.added = 0, !.deleted = 0,
                         !.in_git_header = TRUE,
                         !.in_patch_chunk = FALSE]

BinaryBranchStaysInHeader(st, line) ==
    [st EXCEPT !.binaryfile = TRUE]

\* lines 88-89
BinaryBranch(st, line) ==
    [st EXCEPT !.binaryfile = TRUE, !.in_git_header = FALSE]

\* line 91
RenameFromBranch(st, line) ==
    [st EXCEPT !.currentfile = Some(SliceFrom(line, 12))]

\* lines 93-94: assert currentfile fails on None and on b""
RenameToBranch(st, line) ==
    IF st.currentfile = None \/ st.currentfile = Some("")
    THEN [st EXCEPT !.error = "AssertionError"]
    ELSE [st EXCEPT !.currentfile =
                        Some(st.currentfile[1] \o " => " \o SliceFrom(line, 10))]

\* lines 96-97
ChunkBranch(st, line) ==
    [st EXCEPT !.in_patch_chunk = TRUE, !.in_git_header = FALSE]

AddedBranchAsDeleted(st, line) == [st EXCEPT !.deleted = @ + 1]

\* line 99
AddedBranch(st, line) == [st EXCEPT !.added = @ + 1]

\* line 101
DeletedBranch(st, line) == [st EXCEPT !.deleted = @ + 1]

\* line 103
ChunkEndBranch(st, line) == [st EXCEPT !.in_patch_chunk = FALSE]

(***************************************************************************)
(* Which branch of the if / elif chain a line takes in state st.           *)
(***************************************************************************)
Branch(st, line) ==
    IF StartsWith(line, GIT_HEADER_START) THEN "header"
    ELSE IF StartsWith(line, GIT_BINARY_START) /\ st.in_git_header THEN "binary"
    ELSE IF StartsWith(line, GIT_RENAMEFROM_START) /\ st.in_git_header
         THEN "renamefrom"
    ELSE IF StartsWith(line, GIT_RENAMETO_START) /\ st.in_git_header
         THEN "renameto"
    ELSE IF StartsWith(line, GIT_CHUNK_START)
            /\ (st.in_patch_chunk \/ st.in_git_header) THEN "chunk"
    ELSE IF StartsWith(line, GIT_ADDED_START) /\ st.in_patch_chunk THEN "added"
    ELSE IF StartsWith(line, GIT_DELETED_START) /\ st.in_patch_chunk
         THEN "deleted"
    ELSE IF ~StartsWith(line, GIT_UNCHANGED_START) /\ st.in_patch_chunk
         THEN "chunkend"
    ELSE "none"

\* one iteration of the for loop, lines 74-103
ParseLineChunkAnywhere(st, line) ==
    IF StartsWith(line, GIT_HEADER_START) THEN HeaderBranch(st, line)
    ELSE IF StartsWith(line, GIT_BINARY_START) /\ st.in_git_header
         THEN BinaryBranch(st, line)
    ELSE IF StartsWith(line, GIT_RENAMEFROM_START) /\ st.in_git_header
         THEN RenameFromBranch(st, line)
    ELSE IF StartsWith(line, GIT_RENAMETO_START) /\ st.in_git_header
         THEN RenameToBranch(st, line)
    ELSE IF StartsWith(line, GIT_CHUNK_START)
         THEN ChunkBranch(st, line)
    ELSE IF StartsWith(line, GIT_ADDED_START) /\ st.in_patch_chunk
         THEN AddedBranch(st, line)
    ELSE IF StartsWith(line, GIT_DELETED_START) /\ st.in_patch_chunk
         THEN DeletedBranch(st, line)
    ELSE IF ~StartsWith(line, GIT_UNCHANGED_START) /\ st.in_patch_chunk
         THEN ChunkEndBranch(st, line)
    ELSE st

ParseLine(st, line) ==
    IF StartsWith(line, GIT_HEADER_START) THEN HeaderBranch(st, line)
    ELSE IF StartsWith(line, GIT_BINARY_START) /\ st.in_git_header
         THEN BinaryBranch(st, line)
    ELSE IF StartsWith(line, GIT_RENAMEFROM_START) /\ st.in_git_header
         THEN RenameFromBranch(st, line)
    ELSE IF StartsWith(line, GIT_RENAMETO_START) /\ st.in_git_header
         THEN RenameToBranch(st, line)
    ELSE IF StartsWith(line, GIT_CHUNK_START)
            /\ (st.in_patch_chunk \/ st.in_git_header)
         THEN ChunkBranch(st, line)
    ELSE IF StartsWith(line, GIT_ADDED_START) /\ st.in_patch_chunk
         THEN AddedBranch(st, line)
    ELSE IF StartsWith(line, GIT_DELETED_START) /\ st.in_patch_chunk
         THEN DeletedBranch(st, line)
    ELSE IF ~StartsWith(line, GIT_UNCHANGED_START) /\ st.in_patch_chunk
         THEN ChunkEndBranch(st, line)
    ELSE st

FinalizeNoAppend(st) == st

FinalizeAlways(st) ==
    [st EXCEPT !.names = Append(@, IF st.currentfile # None
                                   THEN st.currentfile[1] ELSE ""),
               !.nametypes = Append(@, st.binaryfile),
               !.counts = Append(@, <<st.added, st.deleted>>)]

FinalizeWithoutType(st) ==
    IF st.currentfile # None
    THEN [st EXCEPT !.names = Append(@, st.currentfile[1]),
                    !.counts = Append(@, <<st.added, st.deleted>>)]
    ELSE st

\* handle end of input, lines 105-108
Finalize(st) ==
    IF st.currentfile # None
    THEN [st EXCEPT !.names = Append(@, st.currentfile[1]),
                    !.nametypes = Append(@, st.binaryfile),
                    !.counts = Append(@, <<st.added, st.deleted>>)]
    ELSE st

\* the for loop over a whole list, stopping at the first exception
RECURSIVE RunLoop(_, _)
RunLoop(st, ls) ==
    IF ls = <<>> \/ st.error # "none" THEN st
    ELSE RunLoop(ParseLine(st, Head(ls)), Tail(ls))

\* _parse_patch(lines), lines 59-109: the locals at return (or at the raise)
ParsePatch(ls) ==
    LET st == RunLoop(InitLocals, ls)
    IN  IF st.error # "none" THEN st ELSE Finalize(st)

(***************************************************************************)
(* The formatter, diffstat, lines 125-189.                                 *)
(***************************************************************************)
\* insert / delete, lines 131-133
InsertList(cnts) == [k \in 1..Len(cnts) |-> cnts[k][1]]
DeleteList(cnts) == [k \in 1..Len(cnts) |-> cnts[k][2]]

NameLenFirst(nms) == IF nms = <<>> THEN 0 ELSE Len(Head(nms))

\* namelen, lines 128 and 134
RECURSIVE NameLen(_)
NameLen(nms) ==
    IF nms = <<>> THEN 0 ELSE Max(Len(Head(nms)), NameLen(Tail(nms)))

\* maxdiff, lines 129 and 135
RECURSIVE MaxDiff(_)
MaxDiff(cnts) ==
    IF cnts = <<>> THEN 0
    ELSE Max(Head(cnts)[1] + Head(cnts)[2], MaxDiff(Tail(cnts)))

\* statlen, line 137
StatLen(md) == Len(Str(md))

\* format % (name, stat, hist), lines 144-150
FormatRow(nlen, slen, name, stat, hist) ==
    " " \o LJust(name, nlen) \o " | " \o RJust(stat, slen) \o " " \o hist \o "\n"

\* binformat % (name, b"Bin"), lines 151 and 182
BinFormatRow(nlen, name) == " " \o LJust(name, nlen) \o " | " \o "Bin" \o "\n"

\* width, line 155
RowWidth(nlen, slen) == Len(FormatRow(nlen, slen, "", "", ""))

HistWidthUnclamped(mw, width) == mw - width

\* histwidth, line 156
HistWidth(mw, width) == Max(2, mw - width)

\* float(n) / maxdiff raises ZeroDivisionError, lines 160-161
DivisionRaises(md, hw) == ~(md < hw) /\ md = 0

(***************************************************************************)
(* IEEE 754 double arithmetic of lines 160-161,                            *)
(* (float(n) / maxdiff) * histwidth, for 0 < n <= maxdiff < 2^13 and       *)
(* 0 < histwidth < 2^12, and int() of the result, lines 166 and 172.       *)
(* A positive number is <<a, b, c, s>>: the integer a * 2^35 + b * 2^17 +  *)
(* c times 2^-s, with b < 2^18 and c < 2^17, so that no intermediate       *)
(* result leaves 32 bits.  A double has MANT_DIG significant bits, that    *)
(* is 2^17 <= a < 2^18.  Division and multiplication round to nearest,     *)
(* ties to even.                                                           *)
(***************************************************************************)
MANT_DIG == 53

\* propagate the carries out of c and b
Carry(a, b, c) ==
    <<a + (b + c \div 2 ^ 17) \div 2 ^ 18,
      (b + c \div 2 ^ 17) % 2 ^ 18,
      c % 2 ^ 17>>

\* the number of bits of a positive integer
RECURSIVE BitLen(_)
BitLen(v) == IF v = 0 THEN 0 ELSE 1 + BitLen(v \div 2)

\* the zeros after the binary point of r / m, 0 < r < m, before its first 1
RECURSIVE SkipZeros(_, _, _)
SkipZeros(r, m, z) ==
    IF 2 * r >= m THEN z ELSE SkipZeros(2 * r, m, z + 1)

\* round the MANT_DIG bits a, b, c of a quotient, found after z zeros and
\* leaving the remainder r of the division by m
RoundQuotient(a, b, c, r, m, z) ==
    LET up == 2 * r > m \/ (2 * r = m /\ c % 2 = 1)
        sig == Carry(a, b, IF up THEN c + 1 ELSE c)
    IN  IF sig[1] = 2 ^ 18 THEN <<2 ^ 17, 0, 0, z + MANT_DIG - 1>>
        ELSE <<sig[1], sig[2], sig[3], z + MANT_DIG>>

\* float(n) / md, 0 < n <= md: long division, 18 + 18 + 17 bits
FloatDiv(n, md) ==
    IF n = md THEN <<2 ^ 17, 0, 0, MANT_DIG - 1>>
    ELSE LET r0 == n * 2 ^ SkipZeros(n, md, 0)
             r1 == (r0 * 2 ^ 18) % md
             r2 == (r1 * 2 ^ 18) % md
         IN  RoundQuotient((r0 * 2 ^ 18) \div md, (r1 * 2 ^ 18) \div md,
                           (r2 * 2 ^ 17) \div md, (r2 * 2 ^ 17) % md,
                           md, SkipZeros(n, md, 0))

\* round the product a, b, c of a double and an integer to MANT_DIG bits:
\* the bits of a above the 18th are as many low bits of c to drop
RoundProduct(a, b, c, s) ==
    LET unit == 2 ^ (BitLen(a) - 18)
        rest == c % unit
        up == 2 * rest > unit \/ (2 * rest = unit /\ (c \div unit) % 2 = 1)
        sig == Carry(a, b, IF up THEN c - rest + unit ELSE c - rest)
    IN  <<sig[1], sig[2], sig[3], s>>

\* x * float(h), h > 0
FloatMul(x, h) ==
    RoundProduct(x[1] * h + (x[2] * h + (x[3] * h) \div 2 ^ 17) \div 2 ^ 18,
                 (x[2] * h + (x[3] * h) \div 2 ^ 17) % 2 ^ 18,
                 (x[3] * h) % 2 ^ 17,
                 x[4])

\* int(x) for x below 2^12: s is MANT_DIG - 1 at least, so the integer part
\* lies in a
FloatToInt(x) == x[1] \div 2 ^ (x[4] - 35)

\* int((float(n) / md) * hw), lines 160-161 with 166 and 172; the sign of
\* hw is the sign of the product
IntOfRatio(n, md, hw) ==
    IF hw = 0 THEN 0
    ELSE IF hw > 0 THEN FloatToInt(FloatMul(FloatDiv(n, md), hw))
    ELSE -FloatToInt(FloatMul(FloatDiv(n, md), -hw))

\* 0 < (float(n) / md) * hw < 1, lines 167 and 173: a positive double is
\* below 1 exactly when int() of it is 0
RatioInUnit(n, md, hw) == hw > 0 /\ IntOfRatio(n, md, hw) = 0

ScaledWidthNoFloor(n, md, hw) ==
    IF n > 0 THEN IntOfRatio(n, md, hw) ELSE 0

ScaledWidthCeil(n, md, hw) ==
    IF n > 0 THEN (n * hw + md - 1) \div md ELSE 0

\* iwidth / dwidth, lines 162-174, for md > 0
ScaledWidth(n, md, hw) ==
    IF n > 0
    THEN LET w == IntOfRatio(n, md, hw)
         IN  IF w = 0 /\ RatioInUnit(n, md, hw) THEN 1 ELSE w
    ELSE 0

\* hist, lines 153-175
Hist(ins, del, md, hw) ==
    IF md < hw
    THEN Repeat("+", ins) \o Repeat("-", del)
    ELSE Repeat("+", ScaledWidth(ins, md, hw))
            \o Repeat("-", ScaledWidth(del, md, hw))

\* one pass of the second loop, lines 138-182
RowNameFromWidth(nms, types, cnts, mw, k) ==
    LET md == MaxDiff(cnts)
        slen == StatLen(md)
        nlen == Max(NameLen(nms), mw - slen - 8)
    IN  IF ~types[k]
        THEN FormatRow(nlen, slen, nms[k], Str(cnts[k][1] + cnts[k][2]),
                       Hist(cnts[k][1], cnts[k][2], md,
                            HistWidth(mw, RowWidth(nlen, slen))))
        ELSE BinFormatRow(nlen, nms[k])

Row(nms, types, cnts, mw, k) ==
    LET nlen == NameLen(nms)
        md == MaxDiff(cnts)
        slen == StatLen(md)
    IN  IF ~types[k]
        THEN FormatRow(nlen, slen, nms[k], Str(cnts[k][1] + cnts[k][2]),
                       Hist(cnts[k][1], cnts[k][2], md,
                            HistWidth(mw, RowWidth(nlen, slen))))
        ELSE BinFormatRow(nlen, nms[k])

SummaryLineSwapped(n, ins, del) ==
    " " \o Str(n) \o " files changed, " \o Str(Sum(del))
        \o " insertions(+), " \o Str(Sum(ins)) \o " deletions(-)"

\* lines 184-188
SummaryLine(n, ins, del) ==
    " " \o Str(n) \o " files changed, " \o Str(Sum(ins))
        \o " insertions(+), " \o Str(Sum(del)) \o " deletions(-)"

\* the list of lines diffstat builds and returns, lines 125-189
Report(nms, types, cnts, mw) ==
    [k \in 1..Len(nms) |-> Row(nms, types, cnts, mw, k)]
        \o <<SummaryLine(Len(nms), InsertList(cnts), DeleteList(cnts))>>

(***************************************************************************)
(* State.  lines is the input consumed so far (the line being processed    *)
(* included, also when it raises); the locals of _parse_patch and of       *)
(* diffstat follow.  output is the report as the list of its lines: the    *)
(* rows, each ending in "\n", then the summary line; the returned bytes    *)
(* are their concatenation.  error is the exception raised, or "none".     *)
(***************************************************************************)
VARIABLES lines, max_width, pc, error,
          names, nametypes, counts, in_patch_chunk, in_git_header,
          binaryfile, currentfile, added, deleted,
          insert, delete, namelen, maxdiff, output

parseVars == <<names, nametypes, counts, in_patch_chunk, in_git_header,
               binaryfile, currentfile, added, deleted>>
fmtVars == <<insert, delete, namelen, maxdiff, output>>
vars == <<lines, max_width, pc, error, parseVars, fmtVars>>

Locals ==
    [names |-> names, nametypes |-> nametypes, counts |-> counts,
     in_patch_chunk |-> in_patch_chunk, in_git_header |-> in_git_header,
     binaryfile |-> binaryfile, currentfile |-> currentfile,
     added |-> added, deleted |-> deleted, error |-> error]

SetLocals(st) ==
    /\ names' = st.names
    /\ nametypes' = st.nametypes
    /\ counts' = st.counts
    /\ in_patch_chunk' = st.in_patch_chunk
    /\ in_git_header' = st.in_git_header
    /\ binaryfile' = st.binaryfile
    /\ currentfile' = st.currentfile
    /\ added' = st.added
    /\ deleted' = st.deleted
    /\ error' = st.error

(***************************************************************************)
(* Inputs.                                                                 *)
(***************************************************************************)
LineSet ==
    {"diff --git a/f b/f", "diff --git a/f b/gh", "diff --git a/f",
     "diff --git f", "Binary files differ", "rename from f", "rename from ",
     "rename to gh", "@@ -1 +1 @@", "+++ b/f", "--- a/f", " a"}

\* Spec calls diffstat(lines) with the default width; SpecFmt varies it
SpecWidths == {DEFAULT_MAX_WIDTH}
FmtWidths == {-1, 0} \cup (MaxWidth - 3)..MaxWidth

Init ==
    /\ lines = <<>>
    /\ max_width \in SpecWidths
    /\ pc = "loop"
    /\ error = "none"
    /\ names = <<>> /\ nametypes = <<>> /\ counts = <<>>
    /\ in_patch_chunk = FALSE /\ in_git_header = FALSE /\ binaryfile = FALSE
    /\ currentfile = None
    /\ added = 0 /\ deleted = 0
    /\ insert = <<>> /\ delete = <<>>
    /\ namelen = 0 /\ maxdiff = 0
    /\ output = <<>>

(***************************************************************************)
(* One iteration of the for loop of _parse_patch on the next input line,   *)
(* one action per branch of the if / elif chain.                           *)
(***************************************************************************)
Step(b, line) ==
    /\ pc = "loop"
    /\ Len(lines) < MaxLines
    /\ Branch(Locals, line) = b
    /\ \E st \in {ParseLine(Locals, line)} :
          /\ SetLocals(st)
          /\ pc' = IF st.error # "none" THEN "error" ELSE "loop"
    /\ lines' = Append(lines, line)
    /\ UNCHANGED <<max_width, fmtVars>>

HeaderLine == pc = "loop" /\ \E line \in LineSet : Step("header", line)
BinaryLine == pc = "loop" /\ \E line \in LineSet : Step("binary", line)
RenameFromLine == pc = "loop" /\ \E line \in LineSet : Step("renamefrom", line)
RenameToLine == pc = "loop" /\ \E line \in LineSet : Step("renameto", line)
ChunkLine == pc = "loop" /\ \E line \in LineSet : Step("chunk", line)
AddedLine == pc = "loop" /\ \E line \in LineSet : Step("added", line)
DeletedLine == pc = "loop" /\ \E line \in LineSet : Step("deleted", line)
ChunkEndLine == pc = "loop" /\ \E line \in LineSet : Step("chunkend", line)
IgnoredLine == pc = "loop" /\ \E line \in LineSet : Step("none", line)

\* end of input and return of _parse_patch, lines 104-109
EndOfInput ==
    /\ pc = "loop"
    /\ SetLocals(Finalize(Locals))
    /\ pc' = "parsed"
    /\ UNCHANGED <<lines, max_width, fmtVars>>

\* the rest of diffstat, lines 126-189
Format ==
    /\ pc = "parsed"
    /\ insert' = InsertList(counts)
    /\ delete' = DeleteList(counts)
    /\ namelen' = NameLen(names)
    /\ maxdiff' = MaxDiff(counts)
    /\ LET hw == HistWidth(max_width,
                           RowWidth(NameLen(names), StatLen(MaxDiff(counts))))
           raises == \E k \in 1..Len(names) :
                        ~nametypes[k] /\ DivisionRaises(MaxDiff(counts), hw)
       IN  IF raises
           THEN /\ pc' = "error"
                /\ error' = "ZeroDivisionError"
                /\ output' = <<>>
           ELSE /\ pc' = "done"
                /\ error' = error
                /\ output' = Report(names, nametypes, counts, max_width)
    /\ UNCHANGED <<lines, max_width, parseVars>>

Next ==
    \/ HeaderLine
    \/ BinaryLine
    \/ RenameFromLine
    \/ RenameToLine
    \/ ChunkLine
    \/ AddedLine
    \/ DeletedLine
    \/ ChunkEndLine
    \/ IgnoredLine
    \/ EndOfInput
    \/ Format

Spec == Init /\ [][Next]_vars

(***************************************************************************)
(* The formatter on its own: the state in which _parse_patch has returned  *)
(* from a well-formed diff of up to MaxRecords file entries, each binary   *)
(* or with up to MaxCount added and MaxCount deleted lines.                *)
(***************************************************************************)
Entries ==
    [binary : {TRUE}, ins : {0}, del : {0}]
    \cup [binary : {FALSE}, ins : 0..MaxCount, del : 0..MaxCount]

\* the lines of the k-th file entry of the diff; its path is k letters long
EntryLines(e, k) ==
    <<GIT_HEADER_START \o Repeat("f", k) \o " b/" \o Repeat("f", k)>>
    \o (IF e.binary THEN <<"Binary files differ">>
        ELSE <<"@@ -1 +1 @@">> \o [i \in 1..e.ins |-> "+a"]
                               \o [i \in 1..e.del |-> "-a"])

RECURSIVE DiffLinesFrom(_, _)
DiffLinesFrom(es, k) ==
    IF k > Len(es) THEN <<>>
    ELSE EntryLines(es[k], k) \o DiffLinesFrom(es, k + 1)

DiffLines(es) == DiffLinesFrom(es, 1)

EntryLists == UNION {[1..n -> Entries] : n \in 0..MaxRecords}

InitFmt ==
    \E es \in EntryLists : \E st \in {ParsePatch(DiffLines(es))} :
            /\ lines = DiffLines(es)
            /\ max_width \in FmtWidths
            /\ pc = "parsed"
            /\ error = st.error
            /\ names = st.names /\ nametypes = st.nametypes
            /\ counts = st.counts
            /\ in_patch_chunk = st.in_patch_chunk
            /\ in_git_header = st.in_git_header
            /\ binaryfile = st.binaryfile
            /\ currentfile = st.currentfile
            /\ added = st.added /\ deleted = st.deleted
            /\ insert = <<>> /\ delete = <<>>
            /\ namelen = 0 /\ maxdiff = 0
            /\ output = <<>>

NextFmt == Format

SpecFmt == InitFmt /\ [][NextFmt]_vars

(***************************************************************************)
(* SpecWide: diffstat on diffs whose counts have two digits and whose      *)
(* histograms are scaled by more than a few columns.  The diff has one     *)
(* entry with up to MaxWideCount added and MaxWideCount deleted lines,     *)
(* alone or after a binary entry or an entry with a single added line.     *)
(***************************************************************************)
WideEntries == [binary : {FALSE}, ins : 0..MaxWideCount, del : 0..MaxWideCount]

SmallEntries ==
    {[binary |-> TRUE, ins |-> 0, del |-> 0],
     [binary |-> FALSE, ins |-> 1, del |-> 0]}

WideLists ==
    {<<e>> : e \in WideEntries}
    \cup {<<s, e>> : s \in SmallEntries, e \in WideEntries}

WideWidths == (MaxWideWidth - 4)..MaxWideWidth

InitWide ==
    \E es \in WideLists : \E st \in {ParsePatch(DiffLines(es))} :
            /\ lines = DiffLines(es)
            /\ max_width \in WideWidths
            /\ pc = "parsed"
            /\ error = st.error
            /\ names = st.names /\ nametypes = st.nametypes
            /\ counts = st.counts
            /\ in_patch_chunk = st.in_patch_chunk
            /\ in_git_header = st.in_git_header
            /\ binaryfile = st.binaryfile
            /\ currentfile = st.currentfile
            /\ added = st.added /\ deleted = st.deleted
            /\ insert = <<>> /\ delete = <<>>
            /\ namelen = 0 /\ maxdiff = 0
            /\ output = <<>>

NextWide == Format

SpecWide == InitWide /\ [][NextWide]_vars

(***************************************************************************)
(* Vocabulary of the properties.                                           *)
(***************************************************************************)
IsHeader(line) == StartsWith(line, GIT_HEADER_START)

\* the shape  diff --git a/<path> b/<path>
WellShaped(line) ==
    IsHeader(line) /\ SepPositions(line, Len(GIT_HEADER_START) + 1) # {}

HeaderPositions(ls) == {k \in 1..Len(ls) : IsHeader(ls[k])}
NumHeaders(ls) == Cardinality(HeaderPositions(ls))

\* ls cut before each header line; the lines before the first one dropped
RECURSIVE SegmentsFrom(_, _, _)
SegmentsFrom(ls, k, segs) ==
    IF k > Len(ls) THEN segs
    ELSE IF IsHeader(ls[k])
         THEN SegmentsFrom(ls, k + 1, Append(segs, <<ls[k]>>))
    ELSE IF segs = <<>> THEN SegmentsFrom(ls, k + 1, segs)
    ELSE SegmentsFrom(ls, k + 1,
                      [segs EXCEPT ![Len(segs)] = Append(@, ls[k])])

\* for each header line, the record that parsing it and the lines up to
\* the next header line alone returns
SegmentRecords(ls) ==
    LET segs == SegmentsFrom(ls, 1, <<>>)
    IN  [k \in 1..Len(segs) |->
            LET st == ParsePatch(segs[k])
            IN  <<st.names[1], st.nametypes[1], st.counts[1]>>]

Contains(s, c) == \E i \in 1..Len(s) : SubSeq(s, i, i) = c

Last(s) == s[Len(s)]

Returned == pc \in {"parsed", "done"}

\* the histogram field of the k-th row of the report
RowHist(k) ==
    SubSeq(output[k], namelen + StatLen(maxdiff) + 6, Len(output[k]) - 1)

\* the histogram budget of the current call
CurHistWidth ==
    HistWidth(max_width, RowWidth(NameLen(names), StatLen(MaxDiff(counts))))

(***************************************************************************)
(* C1: whenever _parse_patch has returned, it returned as many records as  *)
(* the input has lines beginning with "diff --git a/" (the last one        *)
(* finalized at end of input), and a report has that many file rows.       *)
(***************************************************************************)
C1_RowsEqualHeaders ==
    /\ Returned =>
          /\ Len(names) = NumHeaders(lines)
          /\ Len(nametypes) = NumHeaders(lines)
          /\ Len(counts) = NumHeaders(lines)
    /\ pc = "done" => Len(output) - 1 = NumHeaders(lines)

C1_Witness ==
    /\ pc = "done"
    /\ NumHeaders(lines) = 2
    /\ Len(output) = 3
    /\ ~IsHeader(Last(lines))

(***************************************************************************)
(* C2: in every report the summary line reads N files changed, S           *)
(* insertions(+), D deletions(-) with N the number of records and S and D  *)
(* the sums of the parser's counts over the non-binary records (a binary   *)
(* record contributes 0).                                                  *)
(***************************************************************************)
C2_SummaryCounts ==
    pc = "done" =>
        LET S == Sum([k \in 1..Len(counts) |->
                        IF nametypes[k] THEN 0 ELSE counts[k][1]])
            D == Sum([k \in 1..Len(counts) |->
                        IF nametypes[k] THEN 0 ELSE counts[k][2]])
        IN  Last(output) =
                " " \o Str(Len(names)) \o " files changed, " \o Str(S)
                    \o " insertions(+), " \o Str(D) \o " deletions(-)"

C2_Witness ==
    /\ pc = "done"
    /\ Len(names) = 2
    /\ \E k \in 1..2 : nametypes[k]
    /\ Sum(insert) > 0 /\ Sum(delete) > 0 /\ Sum(insert) # Sum(delete)

(***************************************************************************)
(* C3: in every state of the parse and in the returned lists, a record     *)
(* whose binary flag is set has insertions = deletions = 0.                *)
(***************************************************************************)
C3_BinaryHasNoCounts ==
    /\ binaryfile => added = 0 /\ deleted = 0
    /\ \A k \in 1..Len(nametypes) : nametypes[k] => counts[k] = <<0, 0>>

\* a "Binary file" line, then "@@", then "+" within one binary entry
C3_Witness ==
    /\ binaryfile
    /\ \E i, j, k \in 1..Len(lines) :
          /\ i < j /\ j < k
          /\ StartsWith(lines[i], GIT_BINARY_START)
          /\ StartsWith(lines[j], GIT_CHUNK_START)
          /\ StartsWith(lines[k], GIT_ADDED_START)

(***************************************************************************)
(* C4: in every report, the row of a non-binary record with insertions > 0 *)
(* has a "+" in its histogram and the row of one with deletions > 0 has a  *)
(* "-", in the unscaled and in the scaled branch.                          *)
(***************************************************************************)
C4_HistogramShowsChange ==
    pc = "done" =>
        \A k \in 1..Len(names) :
            ~nametypes[k] =>
                /\ counts[k][1] > 0 => Contains(RowHist(k), "+")
                /\ counts[k][2] > 0 => Contains(RowHist(k), "-")

\* scaled branch, the ratio of the insertions below 1
C4_Witness ==
    /\ pc = "done"
    /\ ~(maxdiff < CurHistWidth)
    /\ \E k \in 1..Len(names) :
          /\ ~nametypes[k]
          /\ counts[k][1] > 0
          /\ counts[k][1] * CurHistWidth < maxdiff

(***************************************************************************)
(* C5 as claimed: every consumed line that begins with "diff --git" and    *)
(* has not the shape diff --git a/<path> b/<path> ends the parse in an     *)
(* error at that line, without a report.                                   *)
(***************************************************************************)
C5_AnyDiffGitLineIsFatal ==
    \A k \in 1..Len(lines) :
        (StartsWith(lines[k], "diff --git") /\ ~WellShaped(lines[k])) =>
            /\ pc = "error"
            /\ k = Len(lines)
            /\ output = <<>>

(***************************************************************************)
(* C5 amended: a line that begins with "diff --git a/" and has no " b/"    *)
(* after that prefix ends the parse in an AssertionError at that line,     *)
(* without a report; a line that begins with "diff --git" but not with     *)
(* "diff --git a/" is no header and raises nothing.                        *)
(***************************************************************************)
C5_MalformedHeaderIsFatal ==
    /\ \A k \in 1..Len(lines) :
          (IsHeader(lines[k]) /\ ~WellShaped(lines[k])) =>
              /\ pc = "error"
              /\ error = "AssertionError"
              /\ k = Len(lines)
              /\ output = <<>>
    /\ pc = "error" =>
          \/ IsHeader(Last(lines)) /\ ~WellShaped(Last(lines))
          \/ StartsWith(Last(lines), GIT_RENAMETO_START)

C5_Witness ==
    /\ pc = "error"
    /\ IsHeader(Last(lines))
    /\ \E k \in 1..(Len(lines) - 1) :
          StartsWith(lines[k], "diff --git") /\ ~IsHeader(lines[k])

(***************************************************************************)
(* C6: when the parser is in header state and the last two lines are       *)
(* "rename from X" and "rename to Y", the parse has not failed and the     *)
(* in-progress name is "X => Y", for every X and Y, the empty ones         *)
(* included.                                                               *)
(***************************************************************************)
C6_RenameProducesName ==
    LET n == Len(lines)
    IN  ( /\ n >= 2
          /\ pc \in {"loop", "error"}
          /\ in_git_header
          /\ StartsWith(lines[n - 1], "rename from ")
          /\ StartsWith(lines[n], "rename to ") ) =>
            /\ pc = "loop"
            /\ currentfile = Some(SliceFrom(lines[n - 1], 12) \o " => "
                                    \o SliceFrom(lines[n], 10))

(***************************************************************************)
(* C7: every file row of a report, without its newline, is at most         *)
(* max_width characters long.                                              *)
(***************************************************************************)
C7_RowsFitMaxWidth ==
    pc = "done" =>
        \A k \in 1..(Len(output) - 1) : Len(output[k]) - 1 <= max_width

(***************************************************************************)
(* C8: diffstat never raises ZeroDivisionError: when maxdiff = 0 the       *)
(* comparison maxdiff < histwidth holds, so no record reaches the          *)
(* division, for every max_width, 0 and negative ones included.            *)
(***************************************************************************)
C8_NoDivisionByZero ==
    /\ error # "ZeroDivisionError"
    /\ (Returned /\ MaxDiff(counts) = 0) => MaxDiff(counts) < CurHistWidth

C8_Witness ==
    /\ pc = "done"
    /\ maxdiff = 0
    /\ max_width <= 0
    /\ \E k \in 1..Len(names) : ~nametypes[k]

(***************************************************************************)
(* C9: the k-th record is the record of the k-th header line: it equals    *)
(* what parsing that header line and the lines up to the next header line  *)
(* returns, and the k-th row of the report carries its name.               *)
(***************************************************************************)
C9_RecordsInHeaderOrder ==
    pc \in {"loop", "parsed", "done"} =>
        \A recs \in {SegmentRecords(lines)} :
            /\ \A k \in 1..Len(names) :
                  /\ k <= Len(recs)
                  /\ <<names[k], nametypes[k], counts[k]>> = recs[k]
            /\ pc = "done" =>
                  \A k \in 1..Len(names) :
                      SubSeq(output[k], 2, 1 + namelen)
                          = LJust(recs[k][1], namelen)

C9_Witness ==
    /\ pc = "done"
    /\ Len(names) >= 2
    /\ names[1] # names[2]
    /\ ~IsHeader(Last(lines))

(***************************************************************************)
(* C10 as claimed: no two records of the returned list have the same name. *)
(***************************************************************************)
C10_OneRecordPerFile ==
    Returned =>
        \A i, j \in 1..Len(names) : names[i] = names[j] => i = j

(***************************************************************************)
(* C10 amended: the list holds one record per header line, not per file:   *)
(* the number of records with a given name is the number of header lines   *)
(* whose entry parses to that name, so a file named by two header lines    *)
(* has two records.                                                        *)
(***************************************************************************)
C10_OneRecordPerHeader ==
    Returned =>
        \A recs \in {SegmentRecords(lines)} :
            \A p \in {names[k] : k \in 1..Len(names)}
                     \cup {recs[k][1] : k \in 1..Len(recs)} :
                Cardinality({k \in 1..Len(names) : names[k] = p})
                  = Cardinality({k \in 1..Len(recs) : recs[k][1] = p})

C10_Witness ==
    /\ pc = "done"
    /\ \E i, j \in 1..Len(names) : i < j /\ names[i] = names[j]

(***************************************************************************)
(* C11: for the empty input and for every input without a line beginning   *)
(* with "diff --git a/", no error is raised and the report that diffstat   *)
(* returns has no file row: it is the summary line alone, which in the     *)
(* summary format (a leading blank) reads                                  *)
(* " 0 files changed, 0 insertions(+), 0 deletions(-)".                    *)
(***************************************************************************)
C11_NoHeaderGivesEmptyReport ==
    NumHeaders(lines) = 0 =>
        /\ pc # "error"
        /\ pc = "done" =>
              output = <<" 0 files changed, 0 insertions(+), 0 deletions(-)">>

\* a returned report for an input of rename, hunk and "+" lines, no header
C11_Witness ==
    /\ pc = "done"
    /\ NumHeaders(lines) = 0
    /\ \E i, j, k \in 1..Len(lines) :
          /\ StartsWith(lines[i], GIT_RENAMETO_START)
          /\ StartsWith(lines[j], GIT_CHUNK_START)
          /\ StartsWith(lines[k], GIT_ADDED_START)

\* the part of a row before its histogram: blank, name column, " | ", count
\* column and a blank (a binary row has no histogram and is taken whole)
RowPrefix(row, k) ==
    IF nametypes[k] THEN row
    ELSE SubSeq(row, 1, namelen + StatLen(maxdiff) + 5)

\* the max_width of the call every report is compared with: two reports
\* that each differ from a third in the histograms only differ from each
\* other in the histograms only
OtherWidths == {DEFAULT_MAX_WIDTH}

(***************************************************************************)
(* C12: max_width controls histogram scaling only.  The report returned    *)
(* for the current max_width (negative, zero or around the row width) and  *)
(* the report of the same input for the default max_width have the same    *)
(* number of rows, the same summary line and, row by row in order, the     *)
(* same name column, count column or "Bin" marker: two rows differ at most *)
(* in the histogram string.  So do the reports of any two values.          *)
(***************************************************************************)
C12_WidthOnlyScalesHistogram ==
    pc = "done" =>
        \A w \in OtherWidths :
            \A rep \in {Report(names, nametypes, counts, w)} :
                /\ Len(rep) = Len(output)
                /\ Last(rep) = Last(output)
                /\ \A k \in 1..Len(names) :
                      /\ RowPrefix(rep[k], k) = RowPrefix(output[k], k)
                      /\ SubSeq(rep[k], Len(rep[k]), Len(rep[k])) = "\n"
                      /\ SubSeq(output[k], Len(output[k]), Len(output[k]))
                             = "\n"

\* a report with a binary row and a counted row whose histogram is another
\* one under another max_width
C12_Witness ==
    /\ pc = "done"
    /\ \E k \in 1..Len(names) : nametypes[k]
    /\ \E k \in 1..Len(names) :
          /\ ~nametypes[k]
          /\ \E w \in OtherWidths :
                Row(names, nametypes, counts, w, k) # output[k]

\* the step is one iteration of the loop of _parse_patch: it consumes a line
LineProcessed == Len(lines') = Len(lines) + 1

\* the line the step consumes
ThisLine == lines'[Len(lines')]

(***************************************************************************)
(* C13: while the parser is in neither header nor hunk state, a line that  *)
(* does not begin with "diff --git a/" changes nothing: both flags, the    *)
(* name, binary flag and counts of the record in progress and the          *)
(* finalized records stay as they are, and no error is raised.  So "@@",   *)
(* "+" and "-" lines met in that state are not counted.                    *)
(***************************************************************************)
C13_IdleIgnoresNonHeaderLines ==
    [][(LineProcessed /\ ~in_git_header /\ ~in_patch_chunk
            /\ ~IsHeader(ThisLine))
        => /\ UNCHANGED <<names, nametypes, counts>>
           /\ UNCHANGED <<in_patch_chunk, in_git_header>>
           /\ UNCHANGED <<binaryfile, currentfile, added, deleted>>
           /\ UNCHANGED error
           /\ pc' = "loop"]_vars

\* header, hunk start, a line that leaves the hunk, then a "+" line that is
\* met in neither state and is not counted
C13_Witness ==
    /\ pc = "loop"
    /\ Len(lines) = 4
    /\ IsHeader(lines[1])
    /\ StartsWith(lines[2], GIT_CHUNK_START)
    /\ StartsWith(lines[4], GIT_ADDED_START)
    /\ ~in_git_header /\ ~in_patch_chunk
    /\ currentfile # None
    /\ added = 0

(***************************************************************************)
(* C14: within one record (the step does not consume a header line, which  *)
(* starts the next record) the insertions change only when a line          *)
(* beginning with "+" is processed in hunk state, and such a line adds     *)
(* exactly 1 and leaves the deletions alone; the deletions change only     *)
(* when a line beginning with "-" is processed in hunk state, which adds   *)
(* exactly 1 and leaves the insertions alone.  Hence "+++" and "---" lines *)
(* are counted inside a hunk and are not counted in header state.          *)
(***************************************************************************)
C14_CountsChangeOnlyInHunk ==
    [][/\ ~LineProcessed => UNCHANGED <<added, deleted>>
       /\ (LineProcessed /\ ~IsHeader(ThisLine)) =>
             /\ (in_patch_chunk /\ StartsWith(ThisLine, GIT_ADDED_START))
                   => (added' = added + 1 /\ deleted' = deleted)
             /\ (in_patch_chunk /\ StartsWith(ThisLine, GIT_DELETED_START))
                   => (deleted' = deleted + 1 /\ added' = added)
             /\ added' # added
                   => in_patch_chunk /\ StartsWith(ThisLine, GIT_ADDED_START)
             /\ deleted' # deleted
                   => in_patch_chunk
                         /\ StartsWith(ThisLine, GIT_DELETED_START)]_vars

\* a "+++" line in header state that was not counted and, after the hunk
\* start, a "+++" line that was
C14_Witness ==
    /\ pc = "loop"
    /\ Len(lines) = 4
    /\ IsHeader(lines[1])
    /\ StartsWith(lines[2], "+++")
    /\ StartsWith(lines[3], GIT_CHUNK_START)
    /\ StartsWith(lines[4], "+++")
    /\ in_patch_chunk
    /\ added = 1 /\ deleted = 0

(***************************************************************************)
(* C15: a well-formed header line is accepted in every parser state and    *)
(* before every other rule.  Right after it no error is raised, the parser *)
(* is in header state and not in hunk state, the record in progress has    *)
(* binary = false and insertions = deletions = 0, and the record that was  *)
(* in progress before (if any) has been appended with the name, binary     *)
(* flag and counts it had before the header.                               *)
(***************************************************************************)
C15_HeaderStartsFreshRecord ==
    [][(LineProcessed /\ WellShaped(ThisLine))
        => /\ pc' = "loop" /\ error' = "none"
           /\ in_git_header' /\ ~in_patch_chunk'
           /\ currentfile' # None
           /\ ~binaryfile' /\ added' = 0 /\ deleted' = 0
           /\ IF currentfile # None
              THEN /\ names' = Append(names, currentfile[1])
                   /\ nametypes' = Append(nametypes, binaryfile)
                   /\ counts' = Append(counts, <<added, deleted>>)
              ELSE UNCHANGED <<names, nametypes, counts>>]_vars

\* a header accepted in hunk state, after a counted line: the record before
\* it was appended with its count and the new record starts at zero
C15_Witness ==
    /\ pc = "loop"
    /\ Len(lines) = 4
    /\ WellShaped(lines[1])
    /\ StartsWith(lines[2], GIT_CHUNK_START)
    /\ StartsWith(lines[3], GIT_ADDED_START)
    /\ WellShaped(lines[4])
    /\ counts = <<(<<1, 0>>)>>
    /\ in_git_header /\ added = 0

(***************************************************************************)
(* C16: finalized records are immutable.  Every step leaves the records    *)
(* already in names, nametypes and counts as they are, the three lists     *)
(* only grow, by appending at the end, and they always have one length.    *)
(***************************************************************************)
C16_FinalizedRecordsImmutable ==
    [][/\ Len(names) <= Len(names')
       /\ SubSeq(names', 1, Len(names)) = names
       /\ SubSeq(nametypes', 1, Len(nametypes)) = nametypes
       /\ SubSeq(counts', 1, Len(counts)) = counts
       /\ Len(nametypes) = Len(names) /\ Len(counts) = Len(names)
       /\ Len(nametypes') = Len(names') /\ Len(counts') = Len(names')]_vars

\* a record finalized by the second header, then rename lines that change
\* the name in progress, then the second record appended at end of input
C16_Witness ==
    /\ pc = "parsed"
    /\ Len(lines) = 4
    /\ IsHeader(lines[2])
    /\ names = <<"f", "f => gh">>
    /\ Len(nametypes) = 2 /\ Len(counts) = 2

\* the width the claim gives a histogram half: the count itself when no
\* scaling is needed, else the floor of n * hw / md, raised to 1 when the
\* count is positive and the floor is 0
ClaimedWidth(n, md, hw) ==
    IF md < hw THEN n
    ELSE IF n > 0 /\ (n * hw) \div md = 0 THEN 1
    ELSE (n * hw) \div md

(***************************************************************************)
(* C17: for every non-binary record the histogram is p copies of "+"       *)
(* followed by q copies of "-", where with histwidth = max(2, max_width -  *)
(* width): if maxdiff < histwidth then p = insertions and q = deletions,   *)
(* otherwise p = floor(insertions * histwidth / maxdiff), raised to 1 when *)
(* insertions > 0 and the floor is 0, and q likewise from deletions.       *)
(***************************************************************************)
C17_HistogramIsExactFloor ==
    pc = "done" =>
        \A k \in 1..Len(names) :
            ~nametypes[k] =>
                RowHist(k) =
                    Repeat("+", ClaimedWidth(insert[k], maxdiff, CurHistWidth))
                    \o Repeat("-", ClaimedWidth(delete[k], maxdiff,
                                                CurHistWidth))

(***************************************************************************)
(* C18: every row of a report has its " | " separator at the same column,  *)
(* namelen + 2: each name is at most namelen long and fills the name       *)
(* column left-justified, and each non-binary count insertions + deletions *)
(* has at most statlen digits (statlen = digits of maxdiff) and fills the  *)
(* count column right-justified.  Binary rows share the name column.       *)
(***************************************************************************)
C18_SeparatorsAligned ==
    pc = "done" =>
        \A k \in 1..Len(names) :
            /\ Len(names[k]) <= namelen
            /\ SubSeq(output[k], 1, namelen + 1)
                   = " " \o LJust(names[k], namelen)
            /\ SubSeq(output[k], namelen + 2, namelen + 4) = " | "
            /\ ~nametypes[k] =>
                  /\ Len(Str(insert[k] + delete[k])) <= StatLen(maxdiff)
                  /\ SubSeq(output[k], namelen + 5,
                            namelen + 4 + StatLen(maxdiff))
                         = RJust(Str(insert[k] + delete[k]), StatLen(maxdiff))

\* a one-digit count and a shorter name in a report whose widest count has
\* two digits
C18_Witness ==
    /\ pc = "done"
    /\ Len(names) = 2
    /\ Len(names[1]) < Len(names[2])
    /\ ~nametypes[1]
    /\ insert[1] + delete[1] < 10
    /\ maxdiff >= 10

(***************************************************************************)
(* C19: the histogram never exceeds the histogram budget.  For every       *)
(* non-binary record, whose insertions + deletions are at most maxdiff,    *)
(* and every max_width, the histogram has at most histwidth =              *)
(* max(2, max_width - width) characters, also when the at-least-one        *)
(* override raised a half of it from 0 to 1 in the scaled branch.          *)
(***************************************************************************)
C19_HistogramWithinBudget ==
    pc = "done" =>
        \A k \in 1..Len(names) :
            ~nametypes[k] =>
                /\ insert[k] + delete[k] <= maxdiff
                /\ Len(RowHist(k)) <= CurHistWidth

\* a scaled row of the smallest budget, 2, in which both halves were raised
\* from 0 to 1
C19_Witness ==
    /\ pc = "done"
    /\ CurHistWidth = 2
    /\ \E k \in 1..Len(names) :
          /\ ~nametypes[k]
          /\ insert[k] > 0 /\ delete[k] > 0
          /\ insert[k] * CurHistWidth < maxdiff
          /\ delete[k] * CurHistWidth < maxdiff
          /\ RowHist(k) = "+-"

(***************************************************************************)
(* The parser of spec section 4.1 over the enumerated state {Idle,         *)
(* InHeader, InHunk} with one record in progress: rules 1-9, first match   *)
(* wins, a malformed header is the parse error of section 7, and the       *)
(* record in progress is appended at end of input.                         *)
(***************************************************************************)
EnumInit ==
    [state |-> "Idle", name |-> None, binary |-> FALSE, ins |-> 0, del |-> 0,
     records |-> <<>>, error |-> "none"]

\* append the record in progress, if there is one
EnumFinalize(es) ==
    IF es.name # None
    THEN [es EXCEPT !.records =
              Append(@, [name |-> es.name[1], binary |-> es.binary,
                         ins |-> es.ins, del |-> es.del])]
    ELSE es

EnumRule(es, line) ==
    IF StartsWith(line, "diff --git a/")                        \* rule 1
    THEN IF GitHeaderNameSearch(line) = None
         THEN [EnumFinalize(es) EXCEPT !.error = "ParseError"]
         ELSE [EnumFinalize(es) EXCEPT
                  !.name = Some(GitHeaderNameSearch(line)[1]),
                  !.binary = FALSE, !.ins = 0, !.del = 0,
                  !.state = "InHeader"]
    ELSE IF StartsWith(line, "Binary file") /\ es.state = "InHeader"  \* 2
         THEN [es EXCEPT !.binary = TRUE, !.state = "Idle"]
    ELSE IF StartsWith(line, "rename from") /\ es.state = "InHeader"  \* 3
         THEN [es EXCEPT !.name = Some(SliceFrom(line, 12))]
    ELSE IF StartsWith(line, "rename to") /\ es.state = "InHeader"    \* 4
         THEN [es EXCEPT !.name =
                  Some(es.name[1] \o " => " \o SliceFrom(line, 10))]
    ELSE IF StartsWith(line, "@@")                                    \* 5
            /\ es.state \in {"InHunk", "InHeader"}
         THEN [es EXCEPT !.state = "InHunk"]
    ELSE IF StartsWith(line, "+") /\ es.state = "InHunk"              \* 6
         THEN [es EXCEPT !.ins = @ + 1]
    ELSE IF StartsWith(line, "-") /\ es.state = "InHunk"              \* 7
         THEN [es EXCEPT !.del = @ + 1]
    ELSE IF ~StartsWith(line, " ") /\ es.state = "InHunk"             \* 8
         THEN [es EXCEPT !.state = "Idle"]
    ELSE es                                                           \* 9

RECURSIVE EnumLoop(_, _)
EnumLoop(es, ls) ==
    IF ls = <<>> \/ es.error # "none" THEN es
    ELSE EnumLoop(EnumRule(es, Head(ls)), Tail(ls))

EnumParse(ls) ==
    LET es == EnumLoop(EnumInit, ls)
    IN  IF es.error # "none" THEN es ELSE EnumFinalize(es)

(***************************************************************************)
(* C20: the two flags encode the three-state machine.  in_git_header and   *)
(* in_patch_chunk are never both true, and on every input line sequence    *)
(* the two-flag parser and the parser of rules 1-9 over the enumerated     *)
(* state produce the same list of records: when one returns, the other     *)
(* returns the same names, binary flags and counts, and when one raises    *)
(* the parse error, so does the other.                                     *)
(***************************************************************************)
C20_FlagsEncodeEnumState ==
    /\ ~(in_git_header /\ in_patch_chunk)
    /\ \A es \in {EnumParse(lines)} :
          /\ pc = "error" => es.error # "none"
          /\ pc = "parsed" =>
                /\ es.error = "none"
                /\ Len(es.records) = Len(names)
                /\ \A k \in 1..Len(names) :
                      /\ es.records[k].name = names[k]
                      /\ es.records[k].binary = nametypes[k]
                      /\ es.records[k].ins = counts[k][1]
                      /\ es.records[k].del = counts[k][2]

====
